---- MODULE Spec2Model ----
(***************************************************************************)
(* A model of the opportunity-evaluation and bundle-submission pipeline of *)
(* solana-arb: arb::caculate_profit, arb::merge_quotes,                    *)
(* arb::build_instructions, tx::create_tx_with_address_table_lookup,       *)
(* tx::send_versioned_transaction and main::run_arbitrage.                 *)
(*                                                                         *)
(* Numbers keep the shape of the Rust types at a reduced size: a u64 is an *)
(* unsigned integer of W bits, an i64 a two's-complement integer of W      *)
(* bits, and an f64 a binary float with a significand of P bits (P < W,    *)
(* as 53 < 64) whose values are multiples of 1/Q.  Casts wrap, saturate    *)
(* and round as the Rust `as` casts do.                                    *)
(***************************************************************************)
EXTENDS Integers, Sequences, FiniteSets, TLC

VARIABLES
    pc,                         \* control location of the modelled call
    amount_in,                  \* amount_in / amount_in_lamports (u64)
    token_in,                   \* caculate_profit's token_in
    token_out,                  \* caculate_profit's token_out (the target mint)
    partner_fee,                \* partner_fee (f64)
    env_buy_decay,              \* environment variable BUY_DECAY_FACTOR
    env_sell_decay,             \* environment variable SELL_DECAY_FACTOR
    buy_decay_factor,           \* local of caculate_profit, after the clamp
    sell_decay_factor,          \* local of caculate_profit, after the clamp
    quote_buy_response,         \* local of caculate_profit (decayed once set)
    quote_sell_response,        \* local of caculate_profit (decayed once set)
    profit,                     \* the i64 caculate_profit returns
    calls,                      \* the external requests and responses, in order
    min_profit_lamports,        \* run_arbitrage's threshold (u64)
    wait_for_confirmation,      \* run_arbitrage's flag
    tip_lamports,               \* local of run_arbitrage
    tip_instruction,            \* local of run_arbitrage (a 0/1-element sequence)
    quote_response,             \* the merged quote (a 0/1-element sequence)
    ixs,                        \* the assembled instruction list
    bundles,                    \* the bundles handed to send_bundle, in order
    env_tx_simulate,            \* environment variable TX_SIMULATE
    elapsed,                    \* seconds since the confirmation poll's start
    result,                     \* what the attempt's async block returned
    merge_args,                 \* arguments of a direct merge_quotes call
    merge_ret,                  \* its result
    build_args,                 \* arguments of a direct build_instructions call
    build_ret,                  \* its result
    build_ret_again,            \* the result of a second call on the same arguments
    main_pc,                    \* control location of main's dispatch loop
    tasks,                      \* the spawned run_arbitrage tasks, in spawn order
    compile_args,               \* arguments of a direct call of
                                \* create_tx_with_address_table_lookup
    raw_accounts,               \* what get_multiple_accounts returned to it
    address_lookup_table_accounts,  \* the tables it hands to try_compile
    compile_ret                 \* its result

calcVars == <<amount_in, token_in, token_out, partner_fee, env_buy_decay,
              env_sell_decay, buy_decay_factor, sell_decay_factor,
              quote_buy_response, quote_sell_response, profit, calls>>
sendVars == <<env_tx_simulate, elapsed, result>>
arbVars == <<min_profit_lamports, wait_for_confirmation, tip_lamports,
             tip_instruction, quote_response, ixs, bundles, sendVars>>
mergeVars == <<merge_args, merge_ret>>
buildVars == <<build_args, build_ret, build_ret_again>>
loopVars == <<main_pc, tasks>>
compileVars == <<compile_args, raw_accounts, address_lookup_table_accounts,
                 compile_ret>>
vars == <<pc, calcVars, arbVars, mergeVars, buildVars, loopVars, compileVars>>

(***************************************************************************)
(* Bounds of the model.                                                    *)
(***************************************************************************)
\* bits of a u64 / i64 in the model (64 in the program)
W == 5
\* significand bits of an f64 in the model (53 in the program)
P == 3
\* an f64 of the model is a multiple of 1 / 2^QBits
QBits == 2
\* longest route plan a leg's quote carries
MaxHops == 2
\* longest compute-budget / setup list of an instruction-plan response
MaxStage == 2

(***************************************************************************)
(* Integers: u64, i64 and the casts between them.                          *)
(***************************************************************************)
RECURSIVE Pow2(_)
Pow2(n) == IF n = 0 THEN 1 ELSE 2 * Pow2(n - 1)

U64Max == Pow2(W) - 1
I64Max == Pow2(W - 1) - 1
I64Min == -Pow2(W - 1)
U64 == 0..U64Max

\* `x as i64` for a u64 x: the same bits, read as two's complement
AsI64(x) == IF x > I64Max THEN x - Pow2(W) ELSE x
\* `x as u64` for an i64 x
AsU64(x) == IF x < 0 THEN x + Pow2(W) ELSE x
\* the value a wrapping i64 operation leaves for the exact result x
WrapI64(x) == ((x - I64Min) % Pow2(W)) + I64Min
\* the value a wrapping u64 operation leaves for the exact result x
WrapU64(x) == x % Pow2(W)
InI64(x) == I64Min <= x /\ x <= I64Max
InU64(x) == 0 <= x /\ x <= U64Max

(***************************************************************************)
(* f64: NaN, or the number n / Q.                                          *)
(***************************************************************************)
Q == Pow2(QBits)
NaN == [cls |-> "nan", n |-> 0]
Num(n) == [cls |-> "num", n |-> n]
One == Num(Q)

RECURSIVE BitLen(_)
BitLen(m) == IF m = 0 THEN 0 ELSE 1 + BitLen(m \div 2)

\* a magnitude rounded to P significant bits, ties to even
RoundMag(m) ==
    IF BitLen(m) <= P THEN m
    ELSE LET step == Pow2(BitLen(m) - P)
             lo == (m \div step) * step
             rem == m - lo
         IN  IF 2 * rem < step THEN lo
             ELSE IF 2 * rem > step THEN lo + step
             ELSE IF (lo \div step) % 2 = 0 THEN lo ELSE lo + step
RoundSig(n) == IF n < 0 THEN -RoundMag(-n) ELSE RoundMag(n)

\* `x as f64` for a u64 x
U64AsF64(x) == Num(RoundSig(x * Q))
\* a * b for an integer-valued a (every `as f64` of an integer is one)
F64Mul(a, b) ==
    IF a.cls = "nan" \/ b.cls = "nan" THEN NaN
    ELSE Num(RoundSig((a.n \div Q) * b.n))
\* truncation toward zero of n / Q
Trunc(n) == IF n < 0 THEN -((-n) \div Q) ELSE n \div Q
\* `f as u64`: truncates, saturates, NaN gives 0
F64AsU64(f) ==
    IF f.cls = "nan" THEN 0
    ELSE IF Trunc(f.n) < 0 THEN 0
    ELSE IF Trunc(f.n) > U64Max THEN U64Max ELSE Trunc(f.n)
\* `f as i64`: truncates, saturates, NaN gives 0
F64AsI64(f) ==
    IF f.cls = "nan" THEN 0
    ELSE IF Trunc(f.n) < I64Min THEN I64Min
    ELSE IF Trunc(f.n) > I64Max THEN I64Max ELSE Trunc(f.n)

(***************************************************************************)
(* Mints, quotes and route plans.                                          *)
(***************************************************************************)
NativeMint == "So11111111111111111111111111111111111111112"
TargetMint == "target-mint"
Mints == {NativeMint, TargetMint}

\* a route hop: swap_info.label, swap_info.fee_mint, swap_info.fee_amount
Hop(label, mint, fee) == [label |-> label, fee_mint |-> mint, fee_amount |-> fee]

RECURSIVE SeqsUpTo(_, _)
SeqsUpTo(S, n) ==
    IF n = 0 THEN {<<>>}
    ELSE LET shorter == SeqsUpTo(S, n - 1)
         IN  shorter \cup {Append(s, x) : s \in shorter, x \in S}

NoQuote == [none |-> TRUE]
Quote(imint, omint, inamt, out, thr, impact, route) ==
    [input_mint |-> imint, output_mint |-> omint, in_amount |-> inamt,
     out_amount |-> out, other_amount_threshold |-> thr,
     price_impact_pct |-> impact, route_plan |-> route]

(***************************************************************************)
(* arb::merge_quotes.                                                      *)
(***************************************************************************)
\* amount_in + tip_lamports does not fit a u64
MergeOverflows(amt, tip) == ~InU64(amt + tip)

\* a merge that extends the sell leg's hops with the buy leg's
merge_quotes_sell_first(buy, sell, amt, tip) ==
    [buy EXCEPT !.output_mint = sell.output_mint,
                !.out_amount = WrapU64(amt + tip),
                !.other_amount_threshold = WrapU64(amt + tip),
                !.price_impact_pct = 0,
                !.route_plan = sell.route_plan \o buy.route_plan]

merge_quotes(buy, sell, amt, tip) ==
    [buy EXCEPT !.output_mint = sell.output_mint,
                !.out_amount = WrapU64(amt + tip),
                !.other_amount_threshold = WrapU64(amt + tip),
                !.price_impact_pct = 0,
                !.route_plan = buy.route_plan \o sell.route_plan]

(***************************************************************************)
(* arb::build_instructions.  An Option is a sequence of length 0 or 1.     *)
(***************************************************************************)
Ix(stage, k) == [stage |-> stage, k |-> k]

\* the instruction-plan response of the quoting service
SwapInstructionsResponse(cb, setup, cleanup, other, alts) ==
    [compute_budget_instructions |-> cb, setup_instructions |-> setup,
     swap_instruction |-> Ix("swap", 1), cleanup_instruction |-> cleanup,
     other_instructions |-> other, address_lookup_table_addresses |-> alts]

\* an assembly that pushes the tip after the cleanup instruction
build_instructions_tip_last(resp, tip) ==
    resp.compute_budget_instructions
        \o resp.setup_instructions
        \o <<resp.swap_instruction>>
        \o resp.cleanup_instruction
        \o <<tip>>

\* an assembly that extends with the setup stage before the compute budget
build_instructions_setup_first(resp, tip) ==
    resp.setup_instructions
        \o resp.compute_budget_instructions
        \o <<resp.swap_instruction>>
        \o <<tip>>
        \o resp.cleanup_instruction

build_instructions(resp, tip) ==
    resp.compute_budget_instructions
        \o resp.setup_instructions
        \o <<resp.swap_instruction>>
        \o <<tip>>
        \o resp.cleanup_instruction

\* tx::get_tip_instruction: a system transfer of tip lamports
get_tip_instruction(from, to, lamports) ==
    [stage |-> "tip", from |-> from, to |-> to, lamports |-> lamports]

(***************************************************************************)
(* arb::caculate_profit.                                                   *)
(***************************************************************************)
\* an environment variable that holds a decay factor: not set, set to text
\* that is no f64 ("bad"), or set to text that parses to the f64
Unset == [cls |-> "unset", n |-> 0]
Unparsable == [cls |-> "bad", n |-> 0]

\* env::var(..).unwrap_or("1.0").parse().unwrap_or(1.0)
parse_decay_factor(e) == IF e.cls \in {"unset", "bad"} THEN One ELSE e

\* `if f <= 0.0 || f > 1.0 { f = 1.0 }`: every comparison with NaN is false
clamp_decay_factor(f) ==
    IF f.cls = "num" /\ (f.n <= 0 \/ f.n > Q) THEN One ELSE f

\* `(x as f64 * factor) as u64`
decayed(x, factor) == F64AsU64(F64Mul(U64AsF64(x), factor))
\* a decay step that scales the input amount with the outputs
apply_decay_scaling_input(quote, factor) ==
    [quote EXCEPT !.in_amount = decayed(quote.in_amount, factor),
                  !.out_amount = decayed(quote.out_amount, factor),
                  !.other_amount_threshold =
                        decayed(quote.other_amount_threshold, factor)]

\* lines 67-78 and 94-106
apply_decay(quote, factor) ==
    [quote EXCEPT !.out_amount = decayed(quote.out_amount, factor),
                  !.other_amount_threshold =
                        decayed(quote.other_amount_threshold, factor)]

QuoteRequest(amt, imint, omint) ==
    [kind |-> "quote_request", amount |-> amt, input_mint |-> imint,
     output_mint |-> omint, slippage_bps |-> 0, only_direct_routes |-> TRUE]
QuoteOk(q) == [kind |-> "quote_response", ok |-> TRUE, quote |-> q]
QuoteErr == [kind |-> "quote_response", ok |-> FALSE, quote |-> NoQuote]

\* a sell request that takes the buy leg's output before the decay
sell_request_undecayed(raw, decayed_quote) ==
    QuoteRequest(raw.out_amount, token_out, token_in)

\* the sell-leg request of lines 80-89
sell_request(raw, decayed_quote) ==
    QuoteRequest(decayed_quote.out_amount, token_out, token_in)

\* the exact sum of the native-mint fee amounts of a route plan
RECURSIVE native_fee_total(_)
native_fee_total(route) ==
    IF route = <<>> THEN 0
    ELSE (IF Head(route).fee_mint = NativeMint THEN Head(route).fee_amount ELSE 0)
            + native_fee_total(Tail(route))

\* lines 108-118, every operation wrapping
fee_amount_of(route) == WrapU64(native_fee_total(route))
profit_step1(sell_out, amt) == AsI64(sell_out) - AsI64(amt)
profit_step2(sell_out, amt, route) ==
    WrapI64(profit_step1(sell_out, amt)) - AsI64(fee_amount_of(route))
partner_fee_amount(amt, fee) == F64AsI64(F64Mul(U64AsF64(amt), fee))
profit_step3(sell_out, amt, route, fee) ==
    WrapI64(profit_step2(sell_out, amt, route)) - partner_fee_amount(amt, fee)
profit_of(sell_out, amt, route, fee) ==
    WrapI64(profit_step3(sell_out, amt, route, fee))
\* one of the operations of lines 108-118 overflows its type
profit_overflows(sell_out, amt, route, fee) ==
    \/ ~InU64(native_fee_total(route))
    \/ ~InI64(profit_step1(sell_out, amt))
    \/ ~InI64(profit_step2(sell_out, amt, route))
    \/ ~InI64(profit_step3(sell_out, amt, route, fee))

\* a start that builds the buy request before it checks the direction
CalcStartChecksLate ==
    /\ pc = "calc_call"
    /\ buy_decay_factor' = clamp_decay_factor(parse_decay_factor(env_buy_decay))
    /\ sell_decay_factor' = clamp_decay_factor(parse_decay_factor(env_sell_decay))
    /\ calls' = Append(calls, QuoteRequest(amount_in, token_in, token_out))
    /\ pc' = IF token_in # NativeMint THEN "calc_err_direction" ELSE "calc_await_buy"
    /\ UNCHANGED <<amount_in, token_in, token_out, partner_fee, env_buy_decay,
                   env_sell_decay, quote_buy_response, quote_sell_response,
                   profit, arbVars, mergeVars, buildVars, loopVars,
                   compileVars>>

\* lines 25-64: the direction check, the decay factors, the buy request
CalcStart ==
    /\ pc = "calc_call"
    /\ IF token_in # NativeMint
       THEN /\ pc' = "calc_err_direction"
            /\ UNCHANGED <<buy_decay_factor, sell_decay_factor, calls>>
       ELSE /\ buy_decay_factor' =
                    clamp_decay_factor(parse_decay_factor(env_buy_decay))
            /\ sell_decay_factor' =
                    clamp_decay_factor(parse_decay_factor(env_sell_decay))
            /\ calls' = Append(calls, QuoteRequest(amount_in, token_in, token_out))
            /\ pc' = "calc_await_buy"
    /\ UNCHANGED <<amount_in, token_in, token_out, partner_fee, env_buy_decay,
                   env_sell_decay, quote_buy_response, quote_sell_response,
                   profit, arbVars, mergeVars, buildVars, loopVars,
                   compileVars>>

\* the quote the service returns for a request: it echoes the request's
\* mints and amount; the output fields and the route plan are its own
QuoteFor(req, r) ==
    Quote(req.input_mint, req.output_mint, req.amount, r.out, r.thr,
          r.impact, r.route)

\* lines 64-91: the buy quote arrives, is decayed, the sell request leaves
BuyQuoteReturns(Responses) ==
    /\ pc = "calc_await_buy"
    /\ \E r \in Responses :
          LET raw == QuoteFor(calls[Len(calls)], r)
              q == apply_decay(raw, buy_decay_factor)
          IN  /\ quote_buy_response' = q
              /\ calls' = calls \o <<QuoteOk(raw), sell_request(raw, q)>>
    /\ pc' = "calc_await_sell"
    /\ UNCHANGED <<amount_in, token_in, token_out, partner_fee, env_buy_decay,
                   env_sell_decay, buy_decay_factor, sell_decay_factor,
                   quote_sell_response, profit, arbVars, mergeVars, buildVars, loopVars,
                   compileVars>>

\* line 64: the buy quote request fails, `?` returns the error
BuyQuoteFails ==
    /\ pc = "calc_await_buy"
    /\ calls' = Append(calls, QuoteErr)
    /\ pc' = "calc_err_quote"
    /\ UNCHANGED <<amount_in, token_in, token_out, partner_fee, env_buy_decay,
                   env_sell_decay, buy_decay_factor, sell_decay_factor,
                   quote_buy_response, quote_sell_response, profit,
                   arbVars, mergeVars, buildVars, loopVars, compileVars>>

\* lines 91-120: the sell quote arrives, is decayed, the profit is computed;
\* an overflowing operation wraps here (a build without overflow checks)
SellQuoteReturns(Responses) ==
    /\ pc = "calc_await_sell"
    /\ \E r \in Responses :
          LET raw == QuoteFor(calls[Len(calls)], r)
              q == apply_decay(raw, sell_decay_factor)
          IN  /\ quote_sell_response' = q
              /\ calls' = Append(calls, QuoteOk(raw))
              /\ profit' = profit_of(q.out_amount, amount_in,
                                     quote_buy_response.route_plan, partner_fee)
    /\ pc' = "calc_returned"
    /\ UNCHANGED <<amount_in, token_in, token_out, partner_fee, env_buy_decay,
                   env_sell_decay, buy_decay_factor, sell_decay_factor,
                   quote_buy_response, arbVars, mergeVars, buildVars, loopVars,
                   compileVars>>

\* lines 91-118 in a build with overflow checks: an overflowing operation
\* panics and the call never returns
SellQuoteReturnsAndPanics(Responses) ==
    /\ pc = "calc_await_sell"
    /\ \E r \in Responses :
          LET raw == QuoteFor(calls[Len(calls)], r)
              q == apply_decay(raw, sell_decay_factor)
          IN  /\ profit_overflows(q.out_amount, amount_in,
                                  quote_buy_response.route_plan, partner_fee)
              /\ quote_sell_response' = q
              /\ calls' = Append(calls, QuoteOk(raw))
    /\ pc' = "calc_panicked"
    /\ UNCHANGED <<amount_in, token_in, token_out, partner_fee, env_buy_decay,
                   env_sell_decay, buy_decay_factor, sell_decay_factor,
                   quote_buy_response, profit, arbVars, mergeVars, buildVars, loopVars,
                   compileVars>>

\* line 91: the sell quote request fails, `?` returns the error
SellQuoteFails ==
    /\ pc = "calc_await_sell"
    /\ calls' = Append(calls, QuoteErr)
    /\ pc' = "calc_err_quote"
    /\ UNCHANGED <<amount_in, token_in, token_out, partner_fee, env_buy_decay,
                   env_sell_decay, buy_decay_factor, sell_decay_factor,
                   quote_buy_response, quote_sell_response, profit,
                   arbVars, mergeVars, buildVars, loopVars, compileVars>>

(***************************************************************************)
(* main::run_arbitrage, with tx::create_tx_with_address_table_lookup and   *)
(* tx::send_versioned_transaction.                                         *)
(***************************************************************************)
Payer == "payer"

\* lines 205-223: the RPC client is there, caculate_profit is called on the
\* native mint
ArbStart ==
    /\ pc = "arb_call"
    /\ pc' = "calc_call"
    /\ UNCHANGED <<calcVars, arbVars, mergeVars, buildVars, loopVars,
                   compileVars>>

\* lines 207-213: get_rpc_client fails, the attempt returns
ArbRpcClientFails ==
    /\ pc = "arb_call"
    /\ pc' = "arb_rpc_failed"
    /\ UNCHANGED <<calcVars, arbVars, mergeVars, buildVars, loopVars,
                   compileVars>>

\* lines 303-305: caculate_profit returned an error, which is logged
ArbCalcFailed ==
    /\ pc \in {"calc_err_direction", "calc_err_quote"}
    /\ pc' = "arb_calc_failed"
    /\ UNCHANGED <<calcVars, arbVars, mergeVars, buildVars, loopVars,
                   compileVars>>

\* caculate_profit panicked: the task ends with it
ArbCalcPanicked ==
    /\ pc = "calc_panicked"
    /\ pc' = "arb_panicked"
    /\ UNCHANGED <<calcVars, arbVars, mergeVars, buildVars, loopVars,
                   compileVars>>

\* lines 226-227: profit.abs() overflows for the least i64, a panic in a
\* build with overflow checks
ArbGatePanics ==
    /\ pc = "calc_returned"
    /\ profit = I64Min
    /\ pc' = "arb_panicked"
    /\ UNCHANGED <<calcVars, arbVars, mergeVars, buildVars, loopVars,
                   compileVars>>

\* lines 232-236: the profit is below the threshold, the attempt is skipped
ArbSkips ==
    /\ pc = "calc_returned"
    /\ profit < AsI64(min_profit_lamports)
    /\ pc' = "arb_skipped"
    /\ UNCHANGED <<calcVars, arbVars, mergeVars, buildVars, loopVars,
                   compileVars>>

\* lines 237-244: the opportunity is taken, the tip is half the profit, the
\* tip account is asked for
ArbProceeds ==
    /\ pc = "calc_returned"
    /\ ~(profit < AsI64(min_profit_lamports))
    /\ tip_lamports' = AsU64(profit) \div 2
    /\ calls' = Append(calls, [kind |-> "get_tip_account"])
    /\ pc' = "arb_await_tip_account"
    /\ UNCHANGED <<amount_in, token_in, token_out, partner_fee, env_buy_decay,
                   env_sell_decay, buy_decay_factor, sell_decay_factor,
                   quote_buy_response, quote_sell_response, profit,
                   min_profit_lamports, wait_for_confirmation, tip_instruction,
                   quote_response, ixs, bundles, sendVars, mergeVars, buildVars,
                   loopVars, compileVars>>

\* the Result of the async block of lines 242-296: not yet there, Ok with
\* the transaction ids, or the error that ended the attempt
NoResult == [cls |-> "none", txs |-> <<>>, err |-> ""]
Ok(txs) == [cls |-> "ok", txs |-> txs, err |-> ""]
Err(e) == [cls |-> "err", txs |-> <<>>, err |-> e]

\* line 244: get_tip_account fails, `?` ends the attempt
TipAccountFails ==
    /\ pc = "arb_await_tip_account"
    /\ result' = Err("get_tip_account")
    /\ pc' = "arb_failed"
    /\ UNCHANGED <<calcVars, min_profit_lamports, wait_for_confirmation,
                   tip_lamports, tip_instruction, quote_response, ixs, bundles,
                   env_tx_simulate, elapsed, mergeVars, buildVars, loopVars,
                   compileVars>>

\* lines 244-273: the tip instruction is built, the quotes are merged and
\* the instruction plan is asked for
TipAccountReturns(Accounts) ==
    /\ pc = "arb_await_tip_account"
    /\ \E account \in Accounts :
          tip_instruction' = <<get_tip_instruction(Payer, account, tip_lamports)>>
    /\ LET merged == merge_quotes(quote_buy_response, quote_sell_response,
                                  amount_in, tip_lamports)
       IN  /\ quote_response' = <<merged>>
           /\ calls' = Append(calls, [kind |-> "swap_instructions_request",
                                      user_public_key |-> Payer,
                                      quote_response |-> merged])
    /\ pc' = "arb_await_swap_instructions"
    /\ UNCHANGED <<amount_in, token_in, token_out, partner_fee, env_buy_decay,
                   env_sell_decay, buy_decay_factor, sell_decay_factor,
                   quote_buy_response, quote_sell_response, profit,
                   min_profit_lamports, wait_for_confirmation, tip_lamports,
                   ixs, bundles, sendVars, mergeVars, buildVars, loopVars,
                   compileVars>>

\* lines 244-253 in a build with overflow checks: amount_in + tip_lamports
\* overflows in merge_quotes and the task panics
TipAccountReturnsAndPanics(Accounts) ==
    /\ pc = "arb_await_tip_account"
    /\ MergeOverflows(amount_in, tip_lamports)
    /\ \E account \in Accounts :
          tip_instruction' = <<get_tip_instruction(Payer, account, tip_lamports)>>
    /\ pc' = "arb_panicked"
    /\ UNCHANGED <<calcVars, min_profit_lamports, wait_for_confirmation,
                   tip_lamports, quote_response, ixs, bundles, sendVars,
                   mergeVars, buildVars, loopVars, compileVars>>

\* an instruction-plan failure after which the attempt goes on without a plan
SwapInstructionsFailsAndGoesOn ==
    /\ pc = "arb_await_swap_instructions"
    /\ calls' = Append(calls, [kind |-> "swap_instructions_response", ok |-> FALSE])
    /\ result' = Err("swap_instructions")
    /\ bundles' = Append(bundles, <<>>)
    /\ pc' = "arb_await_send_bundle"
    /\ UNCHANGED <<amount_in, token_in, token_out, partner_fee, env_buy_decay,
                   env_sell_decay, buy_decay_factor, sell_decay_factor,
                   quote_buy_response, quote_sell_response, profit,
                   min_profit_lamports, wait_for_confirmation, tip_lamports,
                   tip_instruction, quote_response, ixs, env_tx_simulate,
                   elapsed, mergeVars, buildVars, loopVars, compileVars>>

\* line 273: the instruction-plan request fails, `?` ends the attempt
SwapInstructionsFails ==
    /\ pc = "arb_await_swap_instructions"
    /\ calls' = Append(calls, [kind |-> "swap_instructions_response", ok |-> FALSE])
    /\ result' = Err("swap_instructions")
    /\ pc' = "arb_failed"
    /\ UNCHANGED <<amount_in, token_in, token_out, partner_fee, env_buy_decay,
                   env_sell_decay, buy_decay_factor, sell_decay_factor,
                   quote_buy_response, quote_sell_response, profit,
                   min_profit_lamports, wait_for_confirmation, tip_lamports,
                   tip_instruction, quote_response, ixs, bundles,
                   env_tx_simulate, elapsed, mergeVars, buildVars, loopVars,
                   compileVars>>

\* the transaction create_tx_with_address_table_lookup compiles and signs
VersionedTransaction(instructions, signer) ==
    [instructions |-> instructions, signed_by |-> signer]

\* the fallible steps of create_tx_with_address_table_lookup, in order:
\* tx.rs 185, 202, 204-209 and 203-211
CompileSteps ==
    {"get_multiple_accounts", "get_latest_blockhash", "try_compile", "try_new"}

\* main.rs 275-286 with tx.rs 185-211: the instructions are assembled, and
\* fetching the lookup-table accounts, fetching the blockhash, compiling or
\* signing fails: `?` ends the attempt
CompileFails(Responses) ==
    /\ pc = "arb_await_swap_instructions"
    /\ \E resp \in Responses :
          /\ ixs' = build_instructions(resp, tip_instruction[1])
          /\ calls' = Append(calls, [kind |-> "swap_instructions_response",
                                     ok |-> TRUE, response |-> resp])
    /\ \E step \in CompileSteps : result' = Err(step)
    /\ pc' = "arb_failed"
    /\ UNCHANGED <<amount_in, token_in, token_out, partner_fee, env_buy_decay,
                   env_sell_decay, buy_decay_factor, sell_decay_factor,
                   quote_buy_response, quote_sell_response, profit,
                   min_profit_lamports, wait_for_confirmation, tip_lamports,
                   tip_instruction, quote_response, bundles, env_tx_simulate,
                   elapsed, mergeVars, buildVars, loopVars, compileVars>>

\* tx.rs 120: `env::var("TX_SIMULATE").ok() == Some("true".to_string())`
simulate_only(e) == e = "true"

\* tx.rs 119-150, the entry of send_versioned_transaction up to its first
\* await: in simulate-only mode the transaction is signed and handed to
\* simulate_transaction; otherwise it is signed, pushed on a fresh bundle and
\* the bundle is handed to send_bundle.  Signing again with the keypair that
\* signed the same message in create_tx_with_address_table_lookup succeeds.
send_versioned_transaction(versioned_transaction, log) ==
    IF simulate_only(env_tx_simulate)
    THEN /\ calls' = Append(log, [kind |-> "simulate_transaction",
                                  transaction |-> versioned_transaction])
         /\ pc' = "arb_await_simulate"
         /\ UNCHANGED bundles
    ELSE /\ calls' = Append(log, [kind |-> "send_bundle"])
         /\ bundles' = Append(bundles, <<versioned_transaction>>)
         /\ pc' = "arb_await_send_bundle"

\* main.rs 275-294 with tx.rs 185-211 and 119-150: the instructions are
\* assembled, compiled and signed, and send_versioned_transaction is entered
SwapInstructionsReturns(Responses) ==
    /\ pc = "arb_await_swap_instructions"
    /\ \E resp \in Responses :
          LET list == build_instructions(resp, tip_instruction[1])
          IN  /\ ixs' = list
              /\ send_versioned_transaction(
                    VersionedTransaction(list, Payer),
                    Append(calls, [kind |-> "swap_instructions_response",
                                   ok |-> TRUE, response |-> resp]))
    /\ UNCHANGED <<amount_in, token_in, token_out, partner_fee, env_buy_decay,
                   env_sell_decay, buy_decay_factor, sell_decay_factor,
                   quote_buy_response, quote_sell_response, profit,
                   min_profit_lamports, wait_for_confirmation, tip_lamports,
                   tip_instruction, quote_response, sendVars, mergeVars,
                   buildVars, loopVars, compileVars>>

\* tx.rs 123-127: the simulate_transaction request fails, `?` returns the error
SimulateFails ==
    /\ pc = "arb_await_simulate"
    /\ result' = Err("simulate_transaction")
    /\ pc' = "arb_failed"
    /\ UNCHANGED <<calcVars, min_profit_lamports, wait_for_confirmation,
                   tip_lamports, tip_instruction, quote_response, ixs, bundles,
                   env_tx_simulate, elapsed, mergeVars, buildVars, loopVars,
                   compileVars>>

\* what a simulation reports: simulate_result.value.err
SimulationResults == {[err |-> <<>>], [err |-> <<"InstructionError">>]}

\* a dry run that forgets the error the simulation reported
simulate_outcome_ignoring_err(sim) == Ok(<<>>)

\* tx.rs 133-136
simulate_outcome(sim) == IF sim.err # <<>> THEN Err(sim.err[1]) ELSE Ok(<<>>)

\* tx.rs 123-136: the simulation ran; its err decides the outcome
SimulateReturns ==
    /\ pc = "arb_await_simulate"
    /\ \E sim \in SimulationResults :
          /\ calls' = Append(calls, [kind |-> "simulate_result", value |-> sim])
          /\ result' = simulate_outcome(sim)
    /\ pc' = IF result'.cls = "ok" THEN "arb_ok" ELSE "arb_failed"
    /\ UNCHANGED <<amount_in, token_in, token_out, partner_fee, env_buy_decay,
                   env_sell_decay, buy_decay_factor, sell_decay_factor,
                   quote_buy_response, quote_sell_response, profit,
                   min_profit_lamports, wait_for_confirmation, tip_lamports,
                   tip_instruction, quote_response, ixs, bundles,
                   env_tx_simulate, elapsed, mergeVars, buildVars, loopVars,
                   compileVars>>

\* a failed submission that hands the bundle to send_bundle once more
SendBundleFailsAndRetries ==
    /\ pc = "arb_await_send_bundle"
    /\ calls' = Append(calls, [kind |-> "send_bundle"])
    /\ bundles' = Append(bundles, bundles[Len(bundles)])
    /\ pc' = "arb_await_send_bundle"
    /\ UNCHANGED <<amount_in, token_in, token_out, partner_fee, env_buy_decay,
                   env_sell_decay, buy_decay_factor, sell_decay_factor,
                   quote_buy_response, quote_sell_response, profit,
                   min_profit_lamports, wait_for_confirmation, tip_lamports,
                   tip_instruction, quote_response, ixs, sendVars, mergeVars,
                   buildVars, loopVars, compileVars>>

\* tx.rs 150: send_bundle fails, `?` ends the attempt
SendBundleFails ==
    /\ pc = "arb_await_send_bundle"
    /\ result' = Err("send_bundle")
    /\ pc' = "arb_failed"
    /\ UNCHANGED <<calcVars, min_profit_lamports, wait_for_confirmation,
                   tip_lamports, tip_instruction, quote_response, ixs, bundles,
                   env_tx_simulate, elapsed, mergeVars, buildVars, loopVars,
                   compileVars>>

\* the bundle id send_bundle returns, and the poll request of the closure
\* of tx.rs 155-164
BundleId == "bundle-id"
StatusRequest(id, at) == [kind |-> "get_bundle_statuses", bundle_id |-> id, at |-> at]

\* a submission after which the status is polled whatever the flag says
SendBundleReturnsAndPolls ==
    /\ pc = "arb_await_send_bundle"
    /\ elapsed' = 0
    /\ calls' = Append(calls, StatusRequest(BundleId, 0))
    /\ pc' = "arb_confirming"
    /\ UNCHANGED <<amount_in, token_in, token_out, partner_fee, env_buy_decay,
                   env_sell_decay, buy_decay_factor, sell_decay_factor,
                   quote_buy_response, quote_sell_response, profit,
                   min_profit_lamports, wait_for_confirmation, tip_lamports,
                   tip_instruction, quote_response, ixs, bundles,
                   env_tx_simulate, result, mergeVars, buildVars, loopVars,
                   compileVars>>

\* tx.rs 150-177: the relay took the bundle; with wait_for_confirmation the
\* call enters wait_for_bundle_confirmation, whose first poll leaves at the
\* captured start time, and without it the call returns Ok(vec![])
SendBundleReturns ==
    /\ pc = "arb_await_send_bundle"
    /\ IF wait_for_confirmation
       THEN /\ elapsed' = 0
            /\ calls' = Append(calls, StatusRequest(BundleId, 0))
            /\ pc' = "arb_confirming"
            /\ UNCHANGED result
       ELSE /\ result' = Ok(<<>>)
            /\ pc' = "arb_ok"
            /\ UNCHANGED <<elapsed, calls>>
    /\ UNCHANGED <<amount_in, token_in, token_out, partner_fee, env_buy_decay,
                   env_sell_decay, buy_decay_factor, sell_decay_factor,
                   quote_buy_response, quote_sell_response, profit,
                   min_profit_lamports, wait_for_confirmation, tip_lamports,
                   tip_instruction, quote_response, ixs, bundles,
                   env_tx_simulate, mergeVars, buildVars, loopVars,
                   compileVars>>

(***************************************************************************)
(* jito::wait_for_bundle_confirmation, as send_versioned_transaction calls  *)
(* it: the poll closure of tx.rs 155-164 asks get_bundle_statuses for the  *)
(* one bundle id.  The loop itself follows the confirmation state machine   *)
(* of the specification (section 4.5): poll, return the transaction ids of  *)
(* a landed bundle, fail once the time since the captured start exceeds the *)
(* timeout, otherwise sleep for the poll interval and poll again.  Time is  *)
(* counted in seconds.                                                      *)
(***************************************************************************)
\* tx.rs 166: Duration::from_millis(1000)
PollInterval == 1
\* tx.rs 167: Duration::from_secs(5)
Timeout == 5

\* one entry of the statuses a poll returns
BundleStatus(id, status, txs) ==
    [bundle_id |-> id, status |-> status, transactions |-> txs]
\* what the poll closure returns: Ok(statuses.value), or the transport error
\* it logs and returns (tx.rs 158-162)
StatusesOk(value) == [ok |-> TRUE, value |-> value]
StatusesErr == [ok |-> FALSE, value |-> <<>>]

\* the entries that report the queried bundle landed with transaction ids
LandedAt(resp, id) ==
    {i \in 1..Len(resp.value) :
        /\ resp.value[i].bundle_id = id
        /\ resp.value[i].status = "landed"
        /\ resp.value[i].transactions # <<>>}
landed(resp, id) == resp.ok /\ LandedAt(resp, id) # {}
landed_transactions(resp, id) ==
    resp.value[CHOOSE i \in LandedAt(resp, id) :
                    \A j \in LandedAt(resp, id) : i <= j].transactions

\* a poll loop that gives up as soon as the timeout is reached
timed_out_at_timeout(t) == t >= Timeout

\* a poll loop without a timeout
timed_out_never(t) == FALSE

\* the time since the start exceeds the timeout
timed_out(t) == t > Timeout

\* a poll loop that returns the transport error of a poll
StatusesReturnAndErrorsEnd(Responses, Latencies) ==
    /\ pc = "arb_confirming"
    /\ \E resp \in Responses, d \in Latencies :
          /\ elapsed' = elapsed + d
          /\ calls' = Append(calls, [kind |-> "bundle_statuses", at |-> elapsed',
                                     response |-> resp])
          /\ IF landed(resp, BundleId)
             THEN /\ result' = Ok(landed_transactions(resp, BundleId))
                  /\ pc' = "arb_ok"
             ELSE IF ~resp.ok
             THEN /\ result' = Err("get_bundle_statuses")
                  /\ pc' = "arb_failed"
             ELSE IF timed_out(elapsed')
             THEN /\ result' = Err("ConfirmationTimeout")
                  /\ pc' = "arb_failed"
             ELSE /\ pc' = "arb_poll_sleeping"
                  /\ UNCHANGED result
    /\ UNCHANGED <<amount_in, token_in, token_out, partner_fee, env_buy_decay,
                   env_sell_decay, buy_decay_factor, sell_decay_factor,
                   quote_buy_response, quote_sell_response, profit,
                   min_profit_lamports, wait_for_confirmation, tip_lamports,
                   tip_instruction, quote_response, ixs, bundles,
                   env_tx_simulate, mergeVars, buildVars, loopVars,
                   compileVars>>

\* a poll comes back after d seconds: a landed status ends the wait with its
\* transaction ids; anything else, the transport error included, leaves the
\* bundle unresolved, and the wait fails once the timeout is exceeded
StatusesReturn(Responses, Latencies) ==
    /\ pc = "arb_confirming"
    /\ \E resp \in Responses, d \in Latencies :
          /\ elapsed' = elapsed + d
          /\ calls' = Append(calls, [kind |-> "bundle_statuses", at |-> elapsed',
                                     response |-> resp])
          /\ IF landed(resp, BundleId)
             THEN /\ result' = Ok(landed_transactions(resp, BundleId))
                  /\ pc' = "arb_ok"
             ELSE IF timed_out(elapsed')
             THEN /\ result' = Err("ConfirmationTimeout")
                  /\ pc' = "arb_failed"
             ELSE /\ pc' = "arb_poll_sleeping"
                  /\ UNCHANGED result
    /\ UNCHANGED <<amount_in, token_in, token_out, partner_fee, env_buy_decay,
                   env_sell_decay, buy_decay_factor, sell_decay_factor,
                   quote_buy_response, quote_sell_response, profit,
                   min_profit_lamports, wait_for_confirmation, tip_lamports,
                   tip_instruction, quote_response, ixs, bundles,
                   env_tx_simulate, mergeVars, buildVars, loopVars,
                   compileVars>>

\* the sleep of one poll interval ends and the next poll leaves
PollSleepEnds ==
    /\ pc = "arb_poll_sleeping"
    /\ elapsed' = elapsed + PollInterval
    /\ calls' = Append(calls, StatusRequest(BundleId, elapsed'))
    /\ pc' = "arb_confirming"
    /\ UNCHANGED <<amount_in, token_in, token_out, partner_fee, env_buy_decay,
                   env_sell_decay, buy_decay_factor, sell_decay_factor,
                   quote_buy_response, quote_sell_response, profit,
                   min_profit_lamports, wait_for_confirmation, tip_lamports,
                   tip_instruction, quote_response, ixs, bundles,
                   env_tx_simulate, result, mergeVars, buildVars, loopVars,
                   compileVars>>

(***************************************************************************)
(* Values of the variables a specification does not use.                   *)
(***************************************************************************)
NoArgs == [none |-> TRUE]
NoRet == [none |-> TRUE]

IdleCalc ==
    /\ amount_in = 0 /\ token_in = NativeMint /\ token_out = TargetMint
    /\ partner_fee = Num(0)
    /\ env_buy_decay = Unset
    /\ env_sell_decay = Unset
    /\ buy_decay_factor = One /\ sell_decay_factor = One
    /\ quote_buy_response = NoQuote /\ quote_sell_response = NoQuote
    /\ profit = 0 /\ calls = <<>>
IdleArb ==
    /\ min_profit_lamports = 0 /\ wait_for_confirmation = FALSE
    /\ tip_lamports = 0 /\ tip_instruction = <<>> /\ quote_response = <<>>
    /\ ixs = <<>> /\ bundles = <<>>
    /\ env_tx_simulate = "unset" /\ elapsed = 0 /\ result = NoResult
IdleMerge == merge_args = NoArgs /\ merge_ret = NoRet
IdleBuild == build_args = NoArgs /\ build_ret = NoRet /\ build_ret_again = NoRet
IdleLoop == main_pc = "idle" /\ tasks = <<>>
IdleCompile ==
    /\ compile_args = NoArgs /\ raw_accounts = <<>>
    /\ address_lookup_table_accounts = <<>> /\ compile_ret = NoResult

(***************************************************************************)
(* A direct call of caculate_profit on arbitrary arguments and environment. *)
(***************************************************************************)
Resp(out, thr, impact, route) ==
    [out |-> out, thr |-> thr, impact |-> impact, route |-> route]

CalcAmounts == {1, Pow2(P) + 1, U64Max}
CalcPartnerFees == {Num(0), Num(Q \div 4), NaN}
CalcDecayEnvs ==
    {Unset, Unparsable, NaN, Num(0), Num(-Q), Num(3 * (Q \div 4)), Num(Q), Num(2 * Q)}
CalcSellDecayEnvs == {Unset, NaN, Num(Q \div 2), Num(2 * Q)}
CalcBuyResponses ==
    {Resp(ot[1], ot[2], 1, r) :
        ot \in {<<0, 0>>, <<5, 4>>, <<Pow2(P) + 1, Pow2(P) + 1>>, <<U64Max, U64Max>>},
        r \in SeqsUpTo({Hop("A", NativeMint, 1), Hop("B", TargetMint, 2)}, MaxHops)}
CalcSellResponses ==
    {Resp(ot[1], ot[2], 2, r) :
        ot \in {<<0, 0>>, <<6, 5>>, <<Pow2(P) + 3, Pow2(P) + 3>>,
                <<I64Max + 1, I64Max + 1>>, <<U64Max, U64Max - 1>>},
        r \in {<<>>, <<Hop("C", NativeMint, 2)>>}}

InitCalc ==
    /\ pc = "calc_call"
    /\ amount_in \in CalcAmounts
    /\ token_in \in Mints
    /\ token_out = TargetMint
    /\ partner_fee \in CalcPartnerFees
    /\ env_buy_decay \in CalcDecayEnvs
    /\ env_sell_decay \in CalcSellDecayEnvs
    /\ buy_decay_factor = One /\ sell_decay_factor = One
    /\ quote_buy_response = NoQuote /\ quote_sell_response = NoQuote
    /\ profit = 0 /\ calls = <<>>
    /\ IdleArb /\ IdleMerge /\ IdleBuild /\ IdleLoop /\ IdleCompile

NextCalc ==
    \/ CalcStart
    \/ BuyQuoteReturns(CalcBuyResponses)
    \/ BuyQuoteFails
    \/ SellQuoteReturns(CalcSellResponses)
    \/ SellQuoteReturnsAndPanics(CalcSellResponses)
    \/ SellQuoteFails
SpecCalc == InitCalc /\ [][NextCalc]_vars

(***************************************************************************)
(* One attempt of run_arbitrage.                                           *)
(***************************************************************************)
\* ui_amount_to_amount saturates, so the largest u64 is a possible amount
ArbAmounts == {0, 2, U64Max}
ArbMinProfits == {0, 2, I64Max + 1}
ArbPartnerFees == {Num(0), Num(Q \div 4)}
ArbBuyDecayEnvs == {Unset, Num(3 * (Q \div 4))}
ArbSellDecayEnvs == {Unset, Num(Q \div 2)}
ArbBuyResponses ==
    {Resp(ot[1], ot[2], 1, r) :
        ot \in {<<4, 4>>, <<U64Max, U64Max>>},
        r \in {<<>>, <<Hop("A", NativeMint, 1)>>}}
ArbSellResponses ==
    {Resp(out, out, 2, <<Hop("B", TargetMint, 2)>>) :
        out \in {0, 3, 6, I64Max + 1, U64Max}}
ArbTipAccounts == {"tip-account-1"}
\* TX_SIMULATE not set, set to "true", set to another text
ArbTxSimulateEnvs == {"unset", "true"}
\* the relay's answers to a poll, and the seconds a poll takes
ArbStatuses ==
    {StatusesOk(<<BundleStatus(BundleId, "pending", <<>>)>>),
     StatusesOk(<<BundleStatus(BundleId, "landed", <<"tx-1">>)>>)}
ArbLatencies == {0}
ArbSwapResponses ==
    {SwapInstructionsResponse(cb, <<Ix("setup", 1)>>, cleanup,
                              <<Ix("other", 1)>>, <<>>) :
        cb \in {<<>>, <<Ix("compute_budget", 1)>>},
        cleanup \in {<<>>, <<Ix("cleanup", 1)>>}}

Init ==
    /\ pc = "arb_call"
    /\ amount_in \in ArbAmounts
    /\ token_in = NativeMint
    /\ token_out = TargetMint
    /\ partner_fee \in ArbPartnerFees
    /\ env_buy_decay \in ArbBuyDecayEnvs
    /\ env_sell_decay \in ArbSellDecayEnvs
    /\ buy_decay_factor = One /\ sell_decay_factor = One
    /\ quote_buy_response = NoQuote /\ quote_sell_response = NoQuote
    /\ profit = 0 /\ calls = <<>>
    /\ min_profit_lamports \in ArbMinProfits
    /\ wait_for_confirmation \in BOOLEAN
    /\ tip_lamports = 0 /\ tip_instruction = <<>> /\ quote_response = <<>>
    /\ ixs = <<>> /\ bundles = <<>>
    /\ env_tx_simulate \in ArbTxSimulateEnvs
    /\ elapsed = 0 /\ result = NoResult
    /\ IdleMerge /\ IdleBuild /\ IdleLoop /\ IdleCompile

Next ==
    \/ ArbStart
    \/ ArbRpcClientFails
    \/ CalcStart
    \/ BuyQuoteReturns(ArbBuyResponses)
    \/ BuyQuoteFails
    \/ SellQuoteReturns(ArbSellResponses)
    \/ SellQuoteReturnsAndPanics(ArbSellResponses)
    \/ SellQuoteFails
    \/ ArbCalcFailed
    \/ ArbCalcPanicked
    \/ ArbGatePanics
    \/ ArbSkips
    \/ ArbProceeds
    \/ TipAccountFails
    \/ TipAccountReturns(ArbTipAccounts)
    \/ TipAccountReturnsAndPanics(ArbTipAccounts)
    \/ SwapInstructionsFails
    \/ CompileFails(ArbSwapResponses)
    \/ SwapInstructionsReturns(ArbSwapResponses)
    \/ SimulateFails
    \/ SimulateReturns
    \/ SendBundleFails
    \/ SendBundleReturns
    \/ StatusesReturn(ArbStatuses, ArbLatencies)
    \/ PollSleepEnds
Spec == Init /\ [][Next]_vars

(***************************************************************************)
(* A direct call of send_versioned_transaction on a signed transaction.    *)
(***************************************************************************)
SendTxSimulateEnvs == {"unset", "true", "TRUE"}
SendTransactions ==
    {VersionedTransaction(<<Ix("swap", 1), get_tip_instruction(Payer, "tip-account-1", t)>>,
                          Payer) : t \in {3}}
\* a transport error, a bundle the relay does not know yet, a pending one,
\* a landed one, and a landed one that is not the bundle asked for
SendStatuses ==
    {StatusesErr,
     StatusesOk(<<BundleStatus(BundleId, "pending", <<>>)>>),
     StatusesOk(<<BundleStatus(BundleId, "landed", <<"tx-1">>)>>),
     StatusesOk(<<BundleStatus("other-bundle", "landed", <<"tx-2">>)>>)}
SendLatencies == {0, 1}

InitSend ==
    /\ pc = "send_call"
    /\ wait_for_confirmation \in BOOLEAN
    /\ env_tx_simulate \in SendTxSimulateEnvs
    /\ \E tx \in SendTransactions : ixs = tx.instructions
    /\ min_profit_lamports = 0 /\ tip_lamports = 0 /\ tip_instruction = <<>>
    /\ quote_response = <<>> /\ bundles = <<>>
    /\ elapsed = 0 /\ result = NoResult
    /\ IdleCalc /\ IdleMerge /\ IdleBuild /\ IdleLoop /\ IdleCompile

\* the call is entered with the transaction of ixs
SendCall ==
    /\ pc = "send_call"
    /\ send_versioned_transaction(VersionedTransaction(ixs, Payer), calls)
    /\ UNCHANGED <<amount_in, token_in, token_out, partner_fee, env_buy_decay,
                   env_sell_decay, buy_decay_factor, sell_decay_factor,
                   quote_buy_response, quote_sell_response, profit,
                   min_profit_lamports, wait_for_confirmation, tip_lamports,
                   tip_instruction, quote_response, ixs, sendVars, mergeVars,
                   buildVars, loopVars, compileVars>>

NextSend ==
    \/ SendCall
    \/ SimulateFails
    \/ SimulateReturns
    \/ SendBundleFails
    \/ SendBundleReturns
    \/ StatusesReturn(SendStatuses, SendLatencies)
    \/ PollSleepEnds
SpecSend == InitSend /\ [][NextSend]_vars

(***************************************************************************)
(* The same call with a relay that answers every request and a timer that  *)
(* fires: every step that is possible is taken in the end.  The relay      *)
(* answers with an error, a pending, a failed or a landed status.          *)
(***************************************************************************)
WaitStatuses ==
    {StatusesErr,
     StatusesOk(<<BundleStatus(BundleId, "pending", <<>>)>>),
     StatusesOk(<<BundleStatus(BundleId, "failed", <<>>)>>),
     StatusesOk(<<BundleStatus(BundleId, "landed", <<"tx-1">>)>>)}
WaitLatencies == {0}

NextWait ==
    \/ SendCall
    \/ SimulateFails
    \/ SimulateReturns
    \/ SendBundleFails
    \/ SendBundleReturns
    \/ StatusesReturn(WaitStatuses, WaitLatencies)
    \/ PollSleepEnds
SpecWait == InitSend /\ [][NextWait]_vars /\ WF_vars(NextWait)

(***************************************************************************)
(* A direct call of tx::create_tx_with_address_table_lookup on arbitrary   *)
(* lookup-table keys and accounts.  An Option is a sequence of length 0 or *)
(* 1.                                                                      *)
(***************************************************************************)
\* the most lookup-table keys of a request
MaxTables == 3

\* an element of the Vec<Option<Account>> get_multiple_accounts returns
NoAccount == <<>>
SomeAccount(data) == <<[data |-> data]>>
\* account data that holds a lookup table with these addresses, and account
\* data that holds none
TableData(addresses) == [decodable |-> TRUE, addresses |-> addresses]
OtherData == [decodable |-> FALSE, addresses |-> <<>>]
\* tx.rs 192-197: AddressLookupTable::deserialize(&account.data) ... .ok()
deserialize(data) ==
    IF data.decodable THEN <<[addresses |-> data.addresses]>> ELSE <<>>
\* tx.rs 193-196
AddressLookupTableAccount(key, addresses) ==
    [key |-> key, addresses |-> addresses]

\* a resolution that ends at the first account that is missing or holds no
\* table
RECURSIVE resolve_lookup_tables_until_missing(_, _)
resolve_lookup_tables_until_missing(keys, accounts) ==
    IF keys = <<>> \/ accounts = <<>> THEN <<>>
    ELSE LET account_opt == Head(accounts)
             table == IF account_opt = NoAccount THEN <<>>
                      ELSE deserialize(account_opt[1].data)
         IN  IF table = <<>> THEN <<>>
             ELSE <<AddressLookupTableAccount(Head(keys), table[1].addresses)>>
                    \o resolve_lookup_tables_until_missing(Tail(keys), Tail(accounts))

\* tx.rs 187-200: keys.iter().zip(raw_accounts.iter()).filter_map(..).collect()
RECURSIVE resolve_lookup_tables(_, _)
resolve_lookup_tables(keys, accounts) ==
    IF keys = <<>> \/ accounts = <<>> THEN <<>>
    ELSE LET account_opt == Head(accounts)
             table == IF account_opt = NoAccount THEN <<>>
                      ELSE deserialize(account_opt[1].data)
             rest == resolve_lookup_tables(Tail(keys), Tail(accounts))
         IN  IF table = <<>> THEN rest
             ELSE <<AddressLookupTableAccount(Head(keys), table[1].addresses)>>
                    \o rest

\* the transaction of tx.rs 203-211: the compiled v0 message and its signer
CompiledTransaction(instructions, tables, signer) ==
    [instructions |-> instructions, address_table_lookups |-> tables,
     signed_by |-> signer]

CompileKeys == SeqsUpTo({"table-1", "table-2"}, MaxTables)
CompileInstructions ==
    {<<Ix("swap", 1), get_tip_instruction(Payer, "tip-account-1", 3)>>}
\* no account, an account that holds no table, and accounts that hold one
CompileAccounts ==
    {NoAccount, SomeAccount(OtherData),
     SomeAccount(TableData(<<"address-1">>)),
     SomeAccount(TableData(<<"address-2", "address-3">>))}

InitCompile ==
    /\ pc = "compile_call"
    /\ compile_args \in [instructions : CompileInstructions,
                         address_lookup_table_keys : CompileKeys]
    /\ raw_accounts = <<>> /\ address_lookup_table_accounts = <<>>
    /\ compile_ret = NoResult
    /\ IdleCalc /\ IdleArb /\ IdleMerge /\ IdleBuild /\ IdleLoop

\* tx.rs 185: get_multiple_accounts fails, `?` returns the error
GetMultipleAccountsFails ==
    /\ pc = "compile_call"
    /\ compile_ret' = Err("get_multiple_accounts")
    /\ pc' = "compile_failed"
    /\ UNCHANGED <<compile_args, raw_accounts, address_lookup_table_accounts,
                   calcVars, arbVars, mergeVars, buildVars, loopVars>>

\* tx.rs 185-202: get_multiple_accounts returns one Option per key, the
\* tables are resolved and the blockhash is asked for
GetMultipleAccountsReturns ==
    /\ pc = "compile_call"
    /\ \E accounts \in SeqsUpTo(CompileAccounts, MaxTables) :
          /\ Len(accounts) = Len(compile_args.address_lookup_table_keys)
          /\ raw_accounts' = accounts
          /\ address_lookup_table_accounts' =
                resolve_lookup_tables(compile_args.address_lookup_table_keys,
                                      accounts)
    /\ pc' = "compile_await_blockhash"
    /\ UNCHANGED <<compile_args, compile_ret, calcVars, arbVars, mergeVars,
                   buildVars, loopVars>>

\* tx.rs 202: get_latest_blockhash fails, `?` returns the error
GetLatestBlockhashFails ==
    /\ pc = "compile_await_blockhash"
    /\ compile_ret' = Err("get_latest_blockhash")
    /\ pc' = "compile_failed"
    /\ UNCHANGED <<compile_args, raw_accounts, address_lookup_table_accounts,
                   calcVars, arbVars, mergeVars, buildVars, loopVars>>

\* tx.rs 203-211: try_compile or try_new fails, `?` returns the error
TryCompileFails ==
    /\ pc = "compile_await_blockhash"
    /\ \E step \in {"try_compile", "try_new"} : compile_ret' = Err(step)
    /\ pc' = "compile_failed"
    /\ UNCHANGED <<compile_args, raw_accounts, address_lookup_table_accounts,
                   calcVars, arbVars, mergeVars, buildVars, loopVars>>

\* tx.rs 202-213: the message is compiled from the instructions and the
\* resolved tables and signed by the payer; the transaction is returned
CreateTxReturns ==
    /\ pc = "compile_await_blockhash"
    /\ compile_ret' = Ok(<<CompiledTransaction(compile_args.instructions,
                                               address_lookup_table_accounts,
                                               Payer)>>)
    /\ pc' = "compile_returned"
    /\ UNCHANGED <<compile_args, raw_accounts, address_lookup_table_accounts,
                   calcVars, arbVars, mergeVars, buildVars, loopVars>>

NextCompile ==
    \/ GetMultipleAccountsFails
    \/ GetMultipleAccountsReturns
    \/ GetLatestBlockhashFails
    \/ TryCompileFails
    \/ CreateTxReturns
SpecCompile == InitCompile /\ [][NextCompile]_vars

(***************************************************************************)
(* A direct call of merge_quotes on arbitrary quotes, amounts and tips.    *)
(***************************************************************************)
HopSamples == {Hop("A", NativeMint, 1), Hop("B", TargetMint, 2)}
RoutePlans == SeqsUpTo(HopSamples, MaxHops)

MergeBuyQuotes ==
    {Quote(NativeMint, TargetMint, 3, 4, 4, 1, r) : r \in RoutePlans}
MergeSellQuotes ==
    {Quote(TargetMint, NativeMint, 4, out, out, 2, r) :
        out \in {5, 9}, r \in RoutePlans}
MergeAmounts == {0, 3, I64Max, U64Max}
MergeTips == {0, 1, 2, U64Max}

InitMerge ==
    /\ pc = "merge_call"
    /\ merge_args \in [buy : MergeBuyQuotes, sell : MergeSellQuotes,
                       amount_in : MergeAmounts, tip_lamports : MergeTips]
    /\ merge_ret = NoRet
    /\ IdleCalc /\ IdleArb /\ IdleBuild /\ IdleLoop /\ IdleCompile

\* the call returns: the u64 additions of lines 135-136 either fit, or
\* overflow, where a build with overflow checks panics and one without wraps
MergeReturns ==
    /\ pc = "merge_call"
    /\ pc' = "merge_returned"
    /\ merge_ret' = merge_quotes(merge_args.buy, merge_args.sell,
                                 merge_args.amount_in, merge_args.tip_lamports)
    /\ UNCHANGED <<merge_args, calcVars, arbVars, buildVars, loopVars,
                   compileVars>>

MergePanics ==
    /\ pc = "merge_call"
    /\ MergeOverflows(merge_args.amount_in, merge_args.tip_lamports)
    /\ pc' = "merge_panicked"
    /\ UNCHANGED <<mergeVars, calcVars, arbVars, buildVars, loopVars,
                   compileVars>>

NextMerge == MergeReturns \/ MergePanics
SpecMerge == InitMerge /\ [][NextMerge]_vars

(***************************************************************************)
(* A direct call of build_instructions on arbitrary responses.             *)
(***************************************************************************)
BuildResponses ==
    {SwapInstructionsResponse(cb, setup, cleanup, other, <<>>) :
        cb \in SeqsUpTo({Ix("compute_budget", 1), Ix("compute_budget", 2)}, MaxStage),
        setup \in SeqsUpTo({Ix("setup", 1)}, MaxStage),
        cleanup \in {<<>>, <<Ix("cleanup", 1)>>},
        other \in SeqsUpTo({Ix("other", 1)}, MaxStage)}
BuildTips == {get_tip_instruction("payer", "tip-account", t) : t \in {0, 3}}

InitBuild ==
    /\ pc = "build_call"
    /\ build_args \in [swap_instructions_response : BuildResponses,
                       tip_instruction : BuildTips]
    /\ build_ret = NoRet /\ build_ret_again = NoRet
    /\ IdleCalc /\ IdleArb /\ IdleMerge /\ IdleLoop /\ IdleCompile

BuildReturns ==
    /\ pc = "build_call"
    /\ pc' = "build_returned"
    /\ build_ret' = build_instructions(build_args.swap_instructions_response,
                                       build_args.tip_instruction)
    /\ UNCHANGED <<build_args, build_ret_again, calcVars, arbVars, mergeVars,
                   loopVars, compileVars>>

\* a second call that starts from the list the first call left
BuildReturnsAgainOnLeftover ==
    /\ pc = "build_returned"
    /\ pc' = "build_returned_again"
    /\ build_ret_again' =
            build_ret \o build_instructions(build_args.swap_instructions_response,
                                            build_args.tip_instruction)
    /\ UNCHANGED <<build_args, build_ret, calcVars, arbVars, mergeVars,
                   loopVars, compileVars>>

\* a second call with the same arguments: line 204 starts it from a new,
\* empty list
BuildReturnsAgain ==
    /\ pc = "build_returned"
    /\ pc' = "build_returned_again"
    /\ build_ret_again' =
            build_instructions(build_args.swap_instructions_response,
                               build_args.tip_instruction)
    /\ UNCHANGED <<build_args, build_ret, calcVars, arbVars, mergeVars,
                   loopVars, compileVars>>

NextBuild == BuildReturns \/ BuildReturnsAgain
SpecBuild == InitBuild /\ [][NextBuild]_vars

(***************************************************************************)
(* main's dispatch loop (main.rs 167-189) with the run_arbitrage tasks it  *)
(* spawns.  A task is kept by the await point (or the end) it is at; its   *)
(* steps are the steps of one attempt above.  The tasks own clones of the   *)
(* clients and of the payer and copies of the amounts: nothing a task       *)
(* writes is read by another task or by the loop.                          *)
(***************************************************************************)
\* the most tasks the loop spawns in the model
MaxTasks == 3

\* where an attempt has ended
TaskEnds ==
    {"arb_rpc_failed", "arb_calc_failed", "arb_skipped", "arb_failed",
     "arb_ok", "arb_panicked"}
\* the ends that are a failed stage
TaskFailures == {"arb_rpc_failed", "arb_calc_failed", "arb_failed"}

\* from an await point to the next one, or to a good end
AdvanceEdges ==
    {<<"arb_call", "calc_await_buy">>,
     <<"calc_await_buy", "calc_await_sell">>,
     <<"calc_await_sell", "arb_skipped">>,
     <<"calc_await_sell", "arb_await_tip_account">>,
     <<"arb_await_tip_account", "arb_await_swap_instructions">>,
     <<"arb_await_swap_instructions", "arb_await_simulate">>,
     <<"arb_await_swap_instructions", "arb_await_send_bundle">>,
     <<"arb_await_simulate", "arb_ok">>,
     <<"arb_await_send_bundle", "arb_ok">>,
     <<"arb_await_send_bundle", "arb_confirming">>,
     <<"arb_confirming", "arb_poll_sleeping">>,
     <<"arb_poll_sleeping", "arb_confirming">>,
     <<"arb_confirming", "arb_ok">>}
\* from an await point to the end its failure leads to
FailEdges ==
    {<<"arb_call", "arb_rpc_failed">>,
     <<"calc_await_buy", "arb_calc_failed">>,
     <<"calc_await_sell", "arb_calc_failed">>,
     <<"arb_await_tip_account", "arb_failed">>,
     <<"arb_await_swap_instructions", "arb_failed">>,
     <<"arb_await_simulate", "arb_failed">>,
     <<"arb_await_send_bundle", "arb_failed">>,
     <<"arb_confirming", "arb_failed">>}
\* the steps that can overflow in a build with overflow checks
PanicEdges ==
    {<<"calc_await_sell", "arb_panicked">>,
     <<"arb_await_tip_account", "arb_panicked">>}

InitLoop ==
    /\ pc = "loop"
    /\ main_pc = "spawn"
    /\ tasks = <<>>
    /\ IdleCalc /\ IdleArb /\ IdleMerge /\ IdleBuild /\ IdleCompile

\* a loop that waits for the tasks it spawned before it spawns the next
DispatchAfterJoin ==
    /\ pc = "loop"
    /\ main_pc = "spawn"
    /\ Len(tasks) < MaxTasks
    /\ \A u \in 1..Len(tasks) : tasks[u] \in TaskEnds
    /\ tasks' = Append(tasks, "arb_call")
    /\ main_pc' = "sleeping"
    /\ UNCHANGED <<pc, calcVars, arbVars, mergeVars, buildVars,
                   compileVars>>

\* main.rs 168-188: the loop clones the arguments, spawns run_arbitrage as a
\* task of its own, drops the join handle and starts the interval sleep
Dispatch ==
    /\ pc = "loop"
    /\ main_pc = "spawn"
    /\ Len(tasks) < MaxTasks
    /\ tasks' = Append(tasks, "arb_call")
    /\ main_pc' = "sleeping"
    /\ UNCHANGED <<pc, calcVars, arbVars, mergeVars, buildVars,
                   compileVars>>

\* main.rs 188: the interval sleep ends, the loop starts over
TimerFires ==
    /\ pc = "loop"
    /\ main_pc = "sleeping"
    /\ main_pc' = "spawn"
    /\ UNCHANGED <<pc, tasks, calcVars, arbVars, mergeVars, buildVars,
                   compileVars>>

\* task t goes on to its next await point or ends well
TaskAdvances(t) ==
    /\ pc = "loop"
    /\ \E e \in AdvanceEdges :
          /\ tasks[t] = e[1]
          /\ tasks' = [tasks EXCEPT ![t] = e[2]]
    /\ UNCHANGED <<pc, main_pc, calcVars, arbVars, mergeVars, buildVars,
                   compileVars>>

\* a failure that is handed to main and ends its loop
TaskFailsAndEndsLoop(t) ==
    /\ pc = "loop"
    /\ \E e \in FailEdges :
          /\ tasks[t] = e[1]
          /\ tasks' = [tasks EXCEPT ![t] = e[2]]
    /\ main_pc' = "exited"
    /\ UNCHANGED <<pc, calcVars, arbVars, mergeVars, buildVars,
                   compileVars>>

\* a stage of task t fails: run_arbitrage logs the error and returns
\* (main.rs 209-212, 299, 303-305)
TaskFails(t) ==
    /\ pc = "loop"
    /\ \E e \in FailEdges :
          /\ tasks[t] = e[1]
          /\ tasks' = [tasks EXCEPT ![t] = e[2]]
    /\ UNCHANGED <<pc, main_pc, calcVars, arbVars, mergeVars, buildVars,
                   compileVars>>

\* task t panics: the runtime ends the task and keeps the panic in the join
\* handle, which main has dropped
TaskPanics(t) ==
    /\ pc = "loop"
    /\ \E e \in PanicEdges :
          /\ tasks[t] = e[1]
          /\ tasks' = [tasks EXCEPT ![t] = e[2]]
    /\ UNCHANGED <<pc, main_pc, calcVars, arbVars, mergeVars, buildVars,
                   compileVars>>

NextLoop ==
    \/ Dispatch
    \/ TimerFires
    \/ \E t \in 1..Len(tasks) : TaskAdvances(t)
    \/ \E t \in 1..Len(tasks) : TaskFails(t)
    \/ \E t \in 1..Len(tasks) : TaskPanics(t)
SpecLoop == InitLoop /\ [][NextLoop]_vars

(***************************************************************************)
(* Properties of build_instructions (SpecBuild).                           *)
(***************************************************************************)
BuildResp == build_args.swap_instructions_response
\* the positions of an instruction list that hold stage st
StageAt(list, st) == {i \in 1..Len(list) : list[i].stage = st}
\* list[from + 1 .. from + Len(part)] is part
HoldsAt(list, from, part) ==
    /\ Len(list) >= from + Len(part)
    /\ \A i \in 1..Len(part) : list[from + i] = part[i]

C7_TipRightAfterSwap ==
    pc = "build_returned" =>
        /\ Cardinality(StageAt(build_ret, "swap")) = 1
        /\ Cardinality(StageAt(build_ret, "tip")) = 1
        /\ \A i \in StageAt(build_ret, "swap") :
              /\ i + 1 <= Len(build_ret)
              /\ build_ret[i + 1] = build_args.tip_instruction
        /\ BuildResp.cleanup_instruction # <<>> =>
              /\ StageAt(build_ret, "cleanup") # {}
              /\ \A c \in StageAt(build_ret, "cleanup") :
                    /\ build_ret[c] = BuildResp.cleanup_instruction[1]
                    /\ \A t \in StageAt(build_ret, "tip") : t < c
        /\ BuildResp.cleanup_instruction = <<>> =>
              StageAt(build_ret, "cleanup") = {}

\* no compute-budget and no setup instruction, a cleanup instruction
C7_Witness ==
    /\ pc = "build_returned"
    /\ BuildResp.compute_budget_instructions = <<>>
    /\ BuildResp.setup_instructions = <<>>
    /\ BuildResp.cleanup_instruction # <<>>
    /\ build_ret[1].stage = "swap"
    /\ build_ret[2].stage = "tip"
    /\ build_ret[3].stage = "cleanup"

C8_MergedOutputIsInputPlusTip ==
    /\ pc # "merge_panicked"
    /\ pc = "merge_returned" =>
          /\ merge_ret.out_amount = merge_args.amount_in + merge_args.tip_lamports
          /\ merge_ret.other_amount_threshold
                = merge_args.amount_in + merge_args.tip_lamports

\* C9: the merged route plan is the buy leg's hops followed by the sell
\* leg's hops, each leg's order kept.
C9_RoutePlanIsBuyThenSell ==
    pc = "merge_returned" =>
        LET b == merge_args.buy.route_plan
            s == merge_args.sell.route_plan
            m == merge_ret.route_plan
        IN  /\ Len(m) = Len(b) + Len(s)
            /\ \A i \in 1..Len(b) : m[i] = b[i]
            /\ \A i \in 1..Len(s) : m[Len(b) + i] = s[i]

\* both legs carry hops, in different orders
C9_Witness ==
    /\ pc = "merge_returned"
    /\ merge_args.buy.route_plan = <<Hop("A", NativeMint, 1), Hop("B", TargetMint, 2)>>
    /\ merge_args.sell.route_plan = <<Hop("B", TargetMint, 2), Hop("A", NativeMint, 1)>>
    /\ Len(merge_ret.route_plan) = 4

(***************************************************************************)
(* Properties of caculate_profit (SpecCalc).                               *)
(***************************************************************************)
QuoteRequestsAt == {i \in 1..Len(calls) : calls[i].kind = "quote_request"}

\* C3: with token_in other than the native mint the call ends with the
\* unsupported-direction error and no quote request, buy or sell, is issued.
C3_NoCallOnUnsupportedDirection ==
    token_in # NativeMint =>
        /\ calls = <<>>
        /\ pc \in {"calc_call", "calc_err_direction"}
        /\ quote_buy_response = NoQuote /\ quote_sell_response = NoQuote

\* the call has ended with the error
C3_Witness ==
    /\ token_in # NativeMint
    /\ pc = "calc_err_direction"
    /\ calls = <<>>

\* floor(amount_in * partner_fee) for the fraction partner_fee = n / Q
ExactPartnerFee(amt, fee) == (amt * fee.n) \div Q

\* C4 as stated: the returned profit is the signed value sell out_amount
\* (after the sell decay) - amount_in - the native-mint fees of the buy
\* leg's hops - floor(amount_in * partner_fee), for every u64 input.
C4_ProfitIsExactSignedValue ==
    (pc = "calc_returned" /\ partner_fee.cls = "num") =>
        profit = quote_sell_response.out_amount - amount_in
                    - native_fee_total(quote_buy_response.route_plan)
                    - ExactPartnerFee(amount_in, partner_fee)

\* C5: the sell request is the second request of the evaluation, comes
\* right after the successful buy response, asks for the decayed buy output
\* and swaps the buy leg's mints; a failed buy quote is followed by no
\* request.
C5_SellRequestFollowsBuyQuote ==
    /\ QuoteRequestsAt \subseteq {1, 3}
    /\ 1 \in QuoteRequestsAt =>
          /\ calls[1].amount = amount_in
          /\ calls[1].input_mint = token_in
          /\ calls[1].output_mint = token_out
    /\ (Len(calls) >= 2 /\ ~calls[2].ok) => Len(calls) = 2
    /\ 3 \in QuoteRequestsAt =>
          /\ calls[2].kind = "quote_response" /\ calls[2].ok
          /\ quote_buy_response # NoQuote
          /\ calls[3].amount = quote_buy_response.out_amount
          /\ calls[3].amount =
                F64AsU64(F64Mul(U64AsF64(calls[2].quote.out_amount),
                                buy_decay_factor))
          /\ calls[3].input_mint = calls[1].output_mint
          /\ calls[3].output_mint = calls[1].input_mint
          /\ calls[3].input_mint = quote_buy_response.output_mint
          /\ calls[3].output_mint = quote_buy_response.input_mint

\* a sell request for a buy output the decay has lowered
C5_Witness ==
    /\ 3 \in QuoteRequestsAt
    /\ buy_decay_factor = Num(3 * (Q \div 4))
    /\ calls[2].quote.out_amount = 5
    /\ calls[3].amount > 0
    /\ calls[3].amount < calls[2].quote.out_amount
    /\ calls[3].input_mint = TargetMint

\* a number that is zero, negative or greater than 1
OutsideUnit(e) == e.cls = "num" /\ (e.n <= 0 \/ e.n > Q)
InsideUnit(e) == e.cls = "num" /\ e.n > 0 /\ e.n <= Q
\* the leg's quote has the output fields the service quoted
LeftAsQuoted(q, raw) ==
    /\ q.out_amount = raw.out_amount
    /\ q.other_amount_threshold = raw.other_amount_threshold

\* C10 as stated: a configured factor that is zero, negative or greater
\* than 1 gives the effective decay 1.0 and leaves the leg's out_amount and
\* other_amount_threshold as quoted; a factor in (0,1] is applied unchanged.
C10_ClampLeavesQuoteAsQuoted ==
    pc \notin {"calc_call", "calc_err_direction"} =>
        /\ OutsideUnit(env_buy_decay) =>
              /\ buy_decay_factor = One
              /\ quote_buy_response # NoQuote =>
                    LeftAsQuoted(quote_buy_response, calls[2].quote)
        /\ OutsideUnit(env_sell_decay) =>
              /\ sell_decay_factor = One
              /\ quote_sell_response # NoQuote =>
                    LeftAsQuoted(quote_sell_response, calls[4].quote)
        /\ InsideUnit(env_buy_decay) => buy_decay_factor = env_buy_decay
        /\ InsideUnit(env_sell_decay) => sell_decay_factor = env_sell_decay

\* floor(x * factor) for the fraction factor = n / Q
ExactDecay(x, factor) == (x * factor.n) \div Q
\* q is the quote raw with both output fields decayed as C20 says
DecayedAsStated(q, raw, factor) ==
    /\ q.out_amount = ExactDecay(raw.out_amount, factor)
    /\ q.other_amount_threshold = ExactDecay(raw.other_amount_threshold, factor)
    /\ q.out_amount <= raw.out_amount
    /\ q.other_amount_threshold <= raw.other_amount_threshold
    /\ factor = One => LeftAsQuoted(q, raw)

\* C20 as stated: for each leg the decay step sets out_amount and
\* other_amount_threshold to the quoted value times the effective decay,
\* rounded toward zero; each decayed value is at most the quoted value, and
\* with decay 1.0 it is the quoted value.
C20_DecayIsTruncatedProduct ==
    /\ (quote_buy_response # NoQuote /\ buy_decay_factor.cls = "num") =>
          DecayedAsStated(quote_buy_response, calls[2].quote, buy_decay_factor)
    /\ (quote_sell_response # NoQuote /\ sell_decay_factor.cls = "num") =>
          DecayedAsStated(quote_sell_response, calls[4].quote, sell_decay_factor)

(***************************************************************************)
(* Properties of run_arbitrage (Spec).                                     *)
(***************************************************************************)
ProceededPcs ==
    {"arb_await_tip_account", "arb_await_swap_instructions",
     "arb_await_simulate", "arb_await_send_bundle", "arb_failed",
     "arb_confirming", "arb_poll_sleeping", "arb_ok"}
KindsIn(log) == {log[i].kind : i \in 1..Len(log)}

\* C1 as stated: once the threshold is tested, the attempt proceeds exactly
\* when the computed profit is at least min_profit_lamports, and an attempt
\* with a smaller profit builds no tip instruction, asks for no instruction
\* plan and sends no bundle.
C1_ProceedsIffProfitReachesThreshold ==
    /\ pc \in ProceededPcs => profit >= min_profit_lamports
    /\ pc = "arb_skipped" => profit < min_profit_lamports
    /\ profit < min_profit_lamports =>
          /\ tip_instruction = <<>>
          /\ "swap_instructions_request" \notin KindsIn(calls)
          /\ bundles = <<>>

\* the tip-paying instructions of a bundle
TipsOf(bundle) ==
    {<<t, i>> \in (1..Len(bundle)) \X (1..(MaxStage + 5)) :
        /\ i <= Len(bundle[t].instructions)
        /\ bundle[t].instructions[i].stage = "tip"}

\* C2 as stated, for the bundles of run_arbitrage: every bundle handed to
\* the relay holds exactly one tip-paying instruction and its amount is
\* greater than 0 (run_arbitrage configures no ceiling, so of "> 0 and at
\* most the ceiling" this states the lower half).
C2_OneTipAboveZero ==
    \A b \in 1..Len(bundles) :
        /\ Cardinality(TipsOf(bundles[b])) = 1
        /\ \A ti \in TipsOf(bundles[b]) :
              bundles[b][ti[1]].instructions[ti[2]].lamports > 0

\* the positions of the log that hold a call of kind k
CallsOfKind(k) == {i \in 1..Len(calls) : calls[i].kind = k}
\* the calls made through the relay client (JitoRpcClient)
RelayCalls == CallsOfKind("send_bundle") \cup CallsOfKind("get_bundle_statuses")

\* C11: with wait_for_confirmation = false the status is never polled, the
\* attempt's only call through the relay client is the one send_bundle, and
\* send_versioned_transaction returns an empty transaction-id list right
\* after that submission.
C11_NoPollWithoutWait ==
    ~wait_for_confirmation =>
        /\ CallsOfKind("get_bundle_statuses") = {}
        /\ CallsOfKind("bundle_statuses") = {}
        /\ pc \notin {"arb_confirming", "arb_poll_sleeping"}
        /\ elapsed = 0
        /\ Cardinality(RelayCalls) <= 1
        /\ Cardinality(RelayCalls) = Len(bundles)
        /\ (pc = "arb_ok" /\ bundles # <<>>) =>
              /\ result = Ok(<<>>)
              /\ calls[Len(calls)].kind = "send_bundle"

\* the bundle was taken and the call returned the empty list
C11_Witness ==
    /\ ~wait_for_confirmation
    /\ pc = "arb_ok"
    /\ Len(bundles) = 1
    /\ result = Ok(<<>>)
    /\ RelayCalls = {Len(calls)}

\* C14: in every attempt send_bundle is invoked at most once, whatever the
\* outcome of signing, submission, polling or timeout.
C14_SendBundleAtMostOnce ==
    /\ Len(bundles) <= 1
    /\ Cardinality(CallsOfKind("send_bundle")) = Len(bundles)
    /\ pc \in {"arb_confirming", "arb_poll_sleeping"} => Len(bundles) = 1
    /\ (result.cls = "err" /\ result.err \in {"send_bundle", "ConfirmationTimeout"})
          => Len(bundles) = 1

\* the poll timed out after one submission
C14_Witness ==
    /\ pc = "arb_failed"
    /\ result = Err("ConfirmationTimeout")
    /\ Cardinality(CallsOfKind("get_bundle_statuses")) > 1
    /\ Len(bundles) = 1

\* the errors of the stages that come before the submission
EarlierStageErrors ==
    {"get_tip_account", "swap_instructions"} \cup CompileSteps

\* C18: a bundle is sent only if every earlier stage of the attempt
\* succeeded: after a failure of either quote request, of the tip-account
\* lookup, of the instruction-plan request, of the lookup-table account
\* fetch, of the blockhash fetch or of signing, the attempt has ended with
\* that error and no bundle was handed to send_bundle.
C18_BundleOnlyAfterEveryStage ==
    /\ bundles # <<>> =>
          /\ Len(calls) >= 7
          /\ calls[2] = QuoteOk(calls[2].quote)
          /\ calls[4] = QuoteOk(calls[4].quote)
          /\ tip_instruction # <<>>
          /\ quote_response # <<>>
          /\ calls[7].kind = "swap_instructions_response" /\ calls[7].ok
          /\ bundles[1] = <<VersionedTransaction(ixs, Payer)>>
          /\ result.err \notin EarlierStageErrors
    /\ pc \in {"arb_rpc_failed", "arb_calc_failed", "calc_err_quote",
               "calc_err_direction"} => bundles = <<>>
    /\ (\E i \in 1..Len(calls) : calls[i] = QuoteErr) =>
          /\ bundles = <<>>
          /\ pc \in {"calc_err_quote", "arb_calc_failed"}
    /\ result.err \in EarlierStageErrors =>
          /\ pc = "arb_failed"
          /\ bundles = <<>>
          /\ CallsOfKind("send_bundle") = {}

\* the blockhash fetch failed after the instruction plan arrived
C18_Witness ==
    /\ pc = "arb_failed"
    /\ result = Err("get_latest_blockhash")
    /\ ixs # <<>>
    /\ bundles = <<>>

(***************************************************************************)
(* Properties of send_versioned_transaction (SpecSend).                    *)
(***************************************************************************)
\* the positions of the poll answers, and the answers that report landed
StatusAnswers == CallsOfKind("bundle_statuses")
LandedAnswers == {i \in StatusAnswers : landed(calls[i].response, BundleId)}

\* C17: with TX_SIMULATE = "true" no bundle is sent and no status is
\* polled; the call returns an error when the simulation reports an error
\* and the empty transaction-id list when it reports none.
C17_SimulateOnlySendsNothing ==
    simulate_only(env_tx_simulate) =>
        /\ bundles = <<>>
        /\ RelayCalls = {}
        /\ StatusAnswers = {}
        /\ pc \in {"send_call", "arb_await_simulate", "arb_ok", "arb_failed"}
        /\ pc = "arb_ok" =>
              /\ result = Ok(<<>>)
              /\ calls[Len(calls)].kind = "simulate_result"
              /\ calls[Len(calls)].value.err = <<>>
        /\ CallsOfKind("simulate_result") # {} =>
              LET sim == calls[Len(calls)].value
              IN  /\ sim.err # <<>> => (pc = "arb_failed" /\ result.cls = "err")
                  /\ sim.err = <<>> => (pc = "arb_ok" /\ result = Ok(<<>>))

\* the simulation reported an error and the call returned it
C17_Witness ==
    /\ simulate_only(env_tx_simulate)
    /\ CallsOfKind("simulate_result") # {}
    /\ calls[Len(calls)].value.err # <<>>
    /\ result = Err("InstructionError")
    /\ bundles = <<>>

\* C12: with wait_for_confirmation = true the wait fails with the timeout
\* only once the time since the captured start exceeds the timeout; until
\* then each poll that does not report landed is followed, one poll interval
\* later, by the next poll; and a wait in which no poll reported landed ends
\* in no other way than the timeout.
C12_TimeoutOnlyAfterTimeout ==
    /\ result = Err("ConfirmationTimeout") =>
          /\ wait_for_confirmation
          /\ elapsed > Timeout
          /\ LandedAnswers = {}
    /\ pc \in {"arb_confirming", "arb_poll_sleeping"} =>
          /\ result = NoResult
          /\ elapsed <= Timeout + PollInterval
    /\ \A i \in StatusAnswers :
          (i \notin LandedAnswers /\ calls[i].at <= Timeout) =>
              /\ result # Err("ConfirmationTimeout") \/ i < Len(calls)
              /\ i < Len(calls) =>
                    /\ calls[i + 1].kind = "get_bundle_statuses"
                    /\ calls[i + 1].at = calls[i].at + PollInterval
    /\ (StatusAnswers # {} /\ LandedAnswers = {} /\ pc \in {"arb_ok", "arb_failed"})
          => result = Err("ConfirmationTimeout")

\* a poll answered at exactly the timeout was followed by one more poll,
\* and that one ended the wait
C12_Witness ==
    /\ result = Err("ConfirmationTimeout")
    /\ \E i \in StatusAnswers : calls[i].at = Timeout
    /\ elapsed = Timeout + PollInterval

\* C13: a transport error of a poll does not end the wait: polling goes on,
\* a later poll that reports landed yields Ok with the landed transaction
\* ids, and only the timeout ends a wait without a landed status.
C13_PollErrorIsNotFatal ==
    /\ result.err # "get_bundle_statuses"
    /\ \A i \in StatusAnswers :
          ~calls[i].response.ok =>
              /\ (i = Len(calls) /\ calls[i].at <= Timeout) =>
                    (pc = "arb_poll_sleeping" /\ result = NoResult)
              /\ (i = Len(calls) /\ calls[i].at > Timeout) =>
                    result = Err("ConfirmationTimeout")
    /\ LandedAnswers # {} =>
          /\ LandedAnswers = {Len(calls)}
          /\ pc = "arb_ok"
          /\ result = Ok(landed_transactions(calls[Len(calls)].response, BundleId))
          /\ result.txs # <<>>
    /\ (StatusAnswers # {} /\ result.cls = "err") =>
          result = Err("ConfirmationTimeout")

\* a poll failed, a later one reported landed
C13_Witness ==
    /\ \E i \in StatusAnswers : ~calls[i].response.ok /\ i < Len(calls)
    /\ LandedAnswers # {}
    /\ result = Ok(<<"tx-1">>)

(***************************************************************************)
(* Properties of the dispatch loop (SpecLoop).                             *)
(***************************************************************************)
TaskIds == 1..Len(tasks)
InFlight == {t \in TaskIds : tasks[t] \notin TaskEnds}
\* the step leaves every task but t as it is
OnlyTaskMoves(t) ==
    /\ Len(tasks') = Len(tasks)
    /\ \A u \in TaskIds \ {t} : tasks'[u] = tasks[u]

\* C15: a failed stage ends only its own attempt.  The loop never exits and
\* its next step (the spawn, or the end of the sleep) stays possible
\* whatever attempts have failed; every attempt in flight can still take its
\* next step; and the step in which an attempt fails changes neither the
\* loop nor any other attempt.
C15_FailureEndsOnlyItsAttempt ==
    /\ [](/\ main_pc \in {"spawn", "sleeping"}
          /\ Len(tasks) < MaxTasks => ENABLED (Dispatch \/ TimerFires)
          /\ \A u \in InFlight : ENABLED (TaskAdvances(u) \/ TaskFails(u)))
    /\ [][\A t \in TaskIds :
            (tasks[t] \notin TaskFailures /\ tasks'[t] \in TaskFailures) =>
                /\ main_pc' = main_pc
                /\ OnlyTaskMoves(t)]_vars

\* attempts failed at different stages, one went through, the loop spawned
\* again
C15_Witness ==
    /\ Len(tasks) = 3
    /\ tasks[1] = "arb_failed"
    /\ tasks[2] = "arb_ok"
    /\ tasks[3] = "calc_await_buy"
    /\ main_pc = "sleeping"

CompileKeysArg == compile_args.address_lookup_table_keys
\* the positions of the request whose account is there and holds a table
Resolvable ==
    {i \in 1..Len(CompileKeysArg) :
        /\ raw_accounts[i] # NoAccount
        /\ raw_accounts[i][1].data.decodable}
\* the place of position i among the resolvable positions
RankOf(i) == Cardinality({j \in Resolvable : j <= i})

\* C21: once the accounts are fetched, the tables handed to the message
\* compiler are the requested addresses whose account is present and
\* decodable, in request order, each with the address list of its own
\* account; a missing or undecodable account is no failure, and the
\* compilation can go on whatever was dropped and then returns a transaction
\* over exactly these tables.
C21_TablesAreTheResolvableOnes ==
    /\ compile_ret.cls = "err" => compile_ret.err \in CompileSteps
    /\ (pc \in {"compile_await_blockhash", "compile_returned"}
            \/ (pc = "compile_failed" /\ compile_ret.err # "get_multiple_accounts")) =>
          /\ Len(raw_accounts) = Len(CompileKeysArg)
          /\ Len(address_lookup_table_accounts) = Cardinality(Resolvable)
          /\ \A i \in Resolvable :
                address_lookup_table_accounts[RankOf(i)] =
                    [key |-> CompileKeysArg[i],
                     addresses |-> raw_accounts[i][1].data.addresses]
    /\ pc = "compile_await_blockhash" => ENABLED CreateTxReturns
    /\ pc = "compile_returned" =>
          /\ compile_ret.cls = "ok"
          /\ compile_ret.txs[1].address_table_lookups = address_lookup_table_accounts
          /\ compile_ret.txs[1].instructions = compile_args.instructions

\* of three requested tables the first has no account, the second an
\* account without a table, and the transaction is compiled over the third
C21_Witness ==
    /\ pc = "compile_returned"
    /\ CompileKeysArg = <<"table-1", "table-2", "table-1">>
    /\ raw_accounts[1] = NoAccount
    /\ raw_accounts[2] = SomeAccount(OtherData)
    /\ compile_ret.txs[1].address_table_lookups =
            <<AddressLookupTableAccount("table-1", <<"address-2", "address-3">>)>>

(***************************************************************************)
(* Further properties of run_arbitrage (Spec).                             *)
(***************************************************************************)
\* q is raw but for its two output fields
OnlyOutputsDiffer(q, raw) ==
    q = [raw EXCEPT !.out_amount = q.out_amount,
                    !.other_amount_threshold = q.other_amount_threshold]

\* C22: the decay step leaves every field of a leg's quote but out_amount
\* and other_amount_threshold as the service returned it, so the input mint
\* and the input amount stay those of the request; the merged quote is the
\* buy leg's quote but for output mint (the sell leg's), out_amount,
\* other_amount_threshold, price impact (zero) and route plan, so its input
\* mint and input amount are the buy leg's.
C22_InputMintAndAmountAreKept ==
    /\ quote_buy_response # NoQuote =>
          /\ OnlyOutputsDiffer(quote_buy_response, calls[2].quote)
          /\ quote_buy_response.input_mint = calls[1].input_mint
          /\ quote_buy_response.in_amount = calls[1].amount
    /\ quote_sell_response # NoQuote =>
          /\ OnlyOutputsDiffer(quote_sell_response, calls[4].quote)
          /\ quote_sell_response.input_mint = calls[3].input_mint
          /\ quote_sell_response.in_amount = calls[3].amount
    /\ quote_response # <<>> =>
          LET m == quote_response[1]
          IN  /\ m.input_mint = quote_buy_response.input_mint
              /\ m.in_amount = quote_buy_response.in_amount
              /\ m.in_amount = amount_in
              /\ m.output_mint = quote_sell_response.output_mint
              /\ m.price_impact_pct = 0
              /\ m = [quote_buy_response EXCEPT
                        !.output_mint = m.output_mint,
                        !.out_amount = m.out_amount,
                        !.other_amount_threshold = m.other_amount_threshold,
                        !.price_impact_pct = m.price_impact_pct,
                        !.route_plan = m.route_plan]

\* both legs were decayed below their quoted outputs and then merged
C22_Witness ==
    /\ quote_response # <<>>
    /\ amount_in = 2
    /\ quote_buy_response.out_amount < calls[2].quote.out_amount
    /\ quote_sell_response.out_amount < calls[4].quote.out_amount
    /\ quote_sell_response.in_amount # amount_in
    /\ quote_response[1].in_amount = 2
    /\ quote_response[1].input_mint = NativeMint

(***************************************************************************)
(* Termination of send_versioned_transaction (SpecWait).                   *)
(***************************************************************************)
SendDone == pc \in {"arb_ok", "arb_failed"}
\* the statuses the polls of the log reported for the bundle
StatusesSeen ==
    {calls[i].response.value[1].status :
        i \in {j \in StatusAnswers : calls[j].response.ok}}

\* C23: every call ends.  No wait polls more often than the timeout allows
\* at one poll per interval; without wait_for_confirmation nothing is
\* polled; a wait that has ended after the submission has ended with the
\* landed transaction ids or with the timeout; and whatever the relay
\* answers, a call that was entered reaches its end.
C23_EveryAttemptEnds ==
    /\ [](Cardinality(CallsOfKind("get_bundle_statuses"))
            <= (Timeout \div PollInterval) + 2)
    /\ [](~wait_for_confirmation =>
            /\ CallsOfKind("get_bundle_statuses") = {}
            /\ pc \notin {"arb_confirming", "arb_poll_sleeping"})
    /\ []((SendDone /\ CallsOfKind("get_bundle_statuses") # {}) =>
            \/ result.cls = "ok" /\ result.txs # <<>>
            \/ result = Err("ConfirmationTimeout"))
    /\ (pc = "send_call") ~> SendDone
    /\ (pc \in {"arb_confirming", "arb_poll_sleeping"}) ~> SendDone

\* a wait that saw a failed poll, a pending and a failed status timed out
C23_Witness ==
    /\ wait_for_confirmation
    /\ pc = "arb_failed"
    /\ result = Err("ConfirmationTimeout")
    /\ \E i \in StatusAnswers : ~calls[i].response.ok
    /\ StatusesSeen = {"pending", "failed"}

(***************************************************************************)
(* The tip of a submitted attempt (Spec).                                  *)
(***************************************************************************)
\* C24 as stated: in every attempt that reaches submission the computed
\* profit is non-negative, the tip is floor(profit / 2) and so at most the
\* profit, the merged quote's other_amount_threshold is amount_in + tip, and
\* the tip instruction pays that same tip.
C24_TipIsHalfOfNonNegativeProfit ==
    (bundles # <<>> \/ pc = "arb_await_simulate") =>
        /\ profit >= 0
        /\ tip_lamports = profit \div 2
        /\ tip_lamports <= profit
        /\ quote_response[1].other_amount_threshold = amount_in + tip_lamports
        /\ quote_response[1].out_amount = amount_in + tip_lamports
        /\ tip_instruction[1].lamports = tip_lamports

====
